---- MODULE Spec2Model ----
(***************************************************************************)
(* A model of durago (src/duration.go): the ISO-8601 duration parser       *)
(* ParseDuration, the converter FromTimeDuration, the accessor             *)
(* GetTimeDuration and the formatter Duration.String.                      *)
(*                                                                         *)
(* Go's int64 (time.Duration) and float64 (Duration.seconds) are modelled  *)
(* bit-exactly.  TLC's integers are 32 bits wide, so a natural number is a *)
(* little-endian sequence of limbs in base 2^15 without leading zero       *)
(* limbs; an int64 is its two's-complement bit pattern in 0 .. 2^64-1; a   *)
(* float64 is a sign, a 53-bit mantissa and a binary exponent, every       *)
(* operation rounding to nearest, ties to even, as IEEE-754 does.          *)
(***************************************************************************)
EXTENDS Integers, Sequences, FiniteSets, TLC

(***************************************************************************)
(* Natural numbers of any size.                                            *)
(***************************************************************************)
Base == 2 ^ 15

RECURSIVE BTrim(_)
BTrim(a) ==
    IF a = <<>> THEN <<>>
    ELSE IF a[Len(a)] = 0 THEN BTrim(SubSeq(a, 1, Len(a) - 1))
    ELSE a

RECURSIVE BNat(_)
BNat(n) ==
    IF n = 0 THEN <<>> ELSE <<n % Base>> \o BNat(n \div Base)

Limb(a, i) == IF i <= Len(a) THEN a[i] ELSE 0

\* a + b: limb by limb from the lowest, c the carry
BAdd(a, b) ==
    LET RECURSIVE AddFrom(_, _)
        AddFrom(i, c) ==
            IF i > Len(a) /\ i > Len(b)
            THEN (IF c = 0 THEN <<>> ELSE <<c>>)
            ELSE <<(Limb(a, i) + Limb(b, i) + c) % Base>>
                   \o AddFrom(i + 1, (Limb(a, i) + Limb(b, i) + c) \div Base)
    IN  AddFrom(1, 0)

\* a - b, for a >= b: limb by limb from the lowest, c the borrow
BSub(a, b) ==
    LET RECURSIVE SubFrom(_, _)
        SubFrom(i, c) ==
            IF i > Len(a) THEN <<>>
            ELSE IF Limb(a, i) - Limb(b, i) - c < 0
            THEN <<Limb(a, i) - Limb(b, i) - c + Base>> \o SubFrom(i + 1, 1)
            ELSE <<Limb(a, i) - Limb(b, i) - c>> \o SubFrom(i + 1, 0)
    IN  BTrim(SubFrom(1, 0))

\* a < b: fewer limbs, or the smaller limb at the highest place they differ
BLess(a, b) ==
    LET RECURSIVE LessAt(_)
        LessAt(i) ==
            IF i = 0 THEN FALSE
            ELSE IF a[i] # b[i] THEN a[i] < b[i]
            ELSE LessAt(i - 1)
    IN  IF Len(a) # Len(b) THEN Len(a) < Len(b) ELSE LessAt(Len(a))

\* a * s, for a small factor 0 <= s < Base
BMulS(a, s) ==
    LET RECURSIVE MulFrom(_, _)
        MulFrom(i, c) ==
            IF i > Len(a) THEN (IF c = 0 THEN <<>> ELSE <<c>>)
            ELSE <<(a[i] * s + c) % Base>>
                   \o MulFrom(i + 1, (a[i] * s + c) \div Base)
    IN  IF s = 0 THEN <<>> ELSE MulFrom(1, 0)

BShiftLimbs(a, n) == IF a = <<>> THEN <<>> ELSE [i \in 1 .. n |-> 0] \o a

\* a * b: the sum of a times each limb of b, shifted to its place
BMul(a, b) ==
    LET RECURSIVE MulAt(_)
        MulAt(i) ==
            IF i > Len(b) THEN <<>>
            ELSE BAdd(BShiftLimbs(BMulS(a, b[i]), i - 1), MulAt(i + 1))
    IN  MulAt(1)

\* quotient and remainder of a by a small divisor 0 < s <= Base: long
\* division from the highest limb, r the running remainder
BDivS(a, s) ==
    LET RECURSIVE DivAt(_, _)
        DivAt(i, r) ==
            IF i = 0 THEN [q |-> <<>>, r |-> r]
            ELSE [DivAt(i - 1, (r * Base + a[i]) % s)
                    EXCEPT !.q = Append(@, (r * Base + a[i]) \div s)]
    IN  [DivAt(Len(a), 0) EXCEPT !.q = BTrim(@)]

\* a * 2^k
BShl(a, k) == BShiftLimbs(BMulS(a, 2 ^ (k % 15)), k \div 15)

\* floor(a / 2^k), and whether the division is exact
BShrLow(d, low) ==
    [q |-> d.q, exact |-> d.r = 0 /\ \A i \in 1 .. Len(low) : low[i] = 0]

BShr(a, k) ==
    LET n == IF k \div 15 < Len(a) THEN k \div 15 ELSE Len(a)
    IN  BShrLow(BDivS(SubSeq(a, n + 1, Len(a)), 2 ^ (k % 15)), SubSeq(a, 1, n))

RECURSIVE BitLenS(_)
BitLenS(n) == IF n = 0 THEN 0 ELSE 1 + BitLenS(n \div 2)

\* the number of bits of a
BBitLen(a) ==
    IF a = <<>> THEN 0 ELSE 15 * (Len(a) - 1) + BitLenS(a[Len(a)])

BIsOdd(a) == a # <<>> /\ a[1] % 2 = 1

\* 10^f.  (The recursions of this module split their argument in halves, or
\* take several digits at a time, to keep TLC's evaluation stack shallow.)
RECURSIVE BPow10(_)
BPow10(f) ==
    IF f <= 4 THEN <<10 ^ f>>
    ELSE BMul(BPow10(f \div 2), BPow10(f - f \div 2))

\* one division of a running quotient: exact only if every division was
BDivStep(d, exact) == [q |-> d.q, exact |-> exact /\ d.r = 0]

\* floor(st.q / 10^f), and whether the division is exact and st was
RECURSIVE BDivPow10From(_, _)
BDivPow10From(st, f) ==
    IF f <= 4 THEN BDivStep(BDivS(st.q, 10 ^ f), st.exact)
    ELSE BDivPow10From(BDivStep(BDivS(st.q, 10 ^ 4), st.exact), f - 4)

\* floor(a / 10^f), and whether the division is exact
BDivPow10(a, f) == BDivPow10From([q |-> a, exact |-> TRUE], f)

\* the decimal digits of a, most significant first (<<>> for zero)
RECURSIVE BDigits(_)
BDigits(a) ==
    IF a = <<>> THEN <<>>
    ELSE LET d == BDivS(a, 10) IN Append(BDigits(d.q), d.r)

\* the number whose decimal digits are ds, most significant first
RECURSIVE BOfDigits(_)
BOfDigits(ds) ==
    IF ds = <<>> THEN <<>>
    ELSE IF Len(ds) = 1 THEN BNat(ds[1])
    ELSE LET h == Len(ds) \div 2
         IN  BAdd(BMul(BOfDigits(SubSeq(ds, 1, h)), BPow10(Len(ds) - h)),
                  BOfDigits(SubSeq(ds, h + 1, Len(ds))))

(***************************************************************************)
(* int64: the two's-complement bit pattern, a natural number below 2^64.   *)
(* Go's int64 arithmetic wraps silently.                                   *)
(***************************************************************************)
Two63 == BShl(<<1>>, 63)
Two64 == BShl(<<1>>, 64)

\* a mod 2^64: four limbs of 15 bits and the low 4 bits of the fifth
Wrap64(a) ==
    BTrim([i \in 1 .. (IF Len(a) < 5 THEN Len(a) ELSE 5) |->
              IF i = 5 THEN a[5] % 16 ELSE a[i]])

I64IsNeg(x) == ~BLess(x, Two63)
I64Neg(x) == Wrap64(BSub(Two64, x))
I64Add(x, y) == Wrap64(BAdd(x, y))
I64Sub(x, y) == I64Add(x, I64Neg(y))
I64Mul(x, y) == Wrap64(BMul(x, y))
\* the magnitude of x, a natural number up to 2^63
I64Mag(x) == IF I64IsNeg(x) THEN BSub(Two64, x) ELSE x
\* the int64 of sign neg and magnitude mag
I64Of(neg, mag) == IF neg THEN I64Neg(Wrap64(mag)) ELSE Wrap64(mag)
\* x < y as signed values
I64Less(x, y) ==
    IF I64IsNeg(x) # I64IsNeg(y) THEN I64IsNeg(x) ELSE BLess(x, y)
\* x > y, signed
I64Greater(x, y) == I64Less(y, x)

I64Geq(x, y) == ~I64Less(x, y)
MaxInt64 == BSub(Two63, <<1>>)
MinInt64 == Two63

(***************************************************************************)
(* float64: [neg, m, e] is (-1)^neg * m * 2^e with 2^52 <= m < 2^53, or    *)
(* m = 0 for zero.  Exponents stay far inside the float64 range for every  *)
(* value the model forms (no subnormal, no infinity).                      *)
(***************************************************************************)
FZero == [neg |-> FALSE, m |-> <<>>, e |-> 0]

\* floor(N * 2^s / 10^f) for any integer s, and whether it is exact
FloorScaled(N, f, s) ==
    IF s >= 0 THEN BDivPow10(BShl(N, s), f)
    ELSE BDivPow10From(BShr(N, -s), f)

\* q.q / 2 rounded to the nearest integer, ties to even, where q.q is the
\* floor of a value and q.exact tells whether it is the value
HalfEven(q) ==
    LET c == BShr(q.q, 1).q
    IN  IF BIsOdd(q.q) /\ (~q.exact \/ BIsOdd(c)) THEN BAdd(c, <<1>>) ELSE c

\* the float64 m * 2^e for a rounded mantissa m, which is 2^53 at most
FNormal(neg, m, e) ==
    IF BBitLen(m) = 54 THEN [neg |-> neg, m |-> BShr(m, 1).q, e |-> e + 1]
    ELSE [neg |-> neg, m |-> m, e |-> e]

\* the s for which floor(N * 2^s / 10^f) has 54 bits; s0 is right or one
\* too large
FShiftFrom(N, f, s0) ==
    IF BBitLen(FloorScaled(N, f, s0).q) = 55 THEN s0 - 1 ELSE s0

FRoundAt(neg, N, f, k, s) ==
    FNormal(neg, HalfEven(FloorScaled(N, f, s)), 1 - s + k)

\* the float64 nearest to (-1)^neg * N * 2^k / 10^f, ties to even
FRound(neg, N, f, k) ==
    IF N = <<>> THEN FZero
    ELSE FRoundAt(neg, N, f, k,
                  FShiftFrom(N, f, 54 - (BBitLen(N) - BBitLen(BPow10(f)))))

\* float64(x) of an int64 x
FOfInt64(x) == FRound(I64IsNeg(x), I64Mag(x), 0, 0)

\* x * c in float64, c a natural number that float64 holds exactly
FMulNat(x, c) == FRound(x.neg, BMul(x.m, c), 0, x.e)

\* x / 10^f in float64
FDivPow10(x, f) == FRound(x.neg, x.m, f, x.e)

\* a + b in float64, for a and b of the same sign (or zero)
FAdd(a, b) ==
    IF a.m = <<>> THEN b
    ELSE IF b.m = <<>> THEN a
    ELSE LET emin == IF a.e < b.e THEN a.e ELSE b.e
         IN  FRound(a.neg,
                    BAdd(BShl(a.m, a.e - emin), BShl(b.m, b.e - emin)),
                    0, emin)

\* int64(x): truncation toward zero.  Go leaves the result of an
\* out-of-range conversion to the implementation; the model forms no such
\* value, and the conversion is defined on the int64 range only.
FToInt64(x) ==
    LET mag == IF x.e >= 0 THEN BShl(x.m, x.e) ELSE BShr(x.m, -x.e).q
    IN  CASE BLess(mag, Two63) \/ (x.neg /\ mag = Two63) -> I64Of(x.neg, mag)

(***************************************************************************)
(* Constants of src/duration.go.  A rune is a one-character string; a Go   *)
(* string is a sequence of runes.                                          *)
(***************************************************************************)
stateParsePeriod == 0
stateParseTime == 1

nsPerMillisecond == 1000000
nsPerSecond == BMulS(BNat(nsPerMillisecond), 1000)
nsPerMinute == BMulS(nsPerSecond, 60)
nsPerHour == BMulS(nsPerMinute, 60)

periodDay == BMulS(nsPerHour, 24)
periodWeek == BMulS(periodDay, 7)
periodYear == BMulS(periodDay, 365)
periodMonth == BDivS(periodYear, 12).q

secondDesignator == "S"
minuteMonthDesignator == "M"
hourDesignator == "H"
timeDesignator == "T"
dayDesignator == "D"
weekDesignator == "W"
yearDesignator == "Y"
durationDesignator == "P"

positiveSign == "+"
negativeSign == "-"
floatDesignator == "."

zeroDuration == <<"P", "T", "0", "S">>

ErrInvalidFormat == "invalid format"
ErrParse == "parse failed"

\* &Duration{}
ZeroValue ==
    [d |-> <<>>, negative |-> FALSE, years |-> <<>>, months |-> <<>>,
     weeks |-> <<>>, days |-> <<>>, hours |-> <<>>, minutes |-> <<>>,
     seconds |-> FZero]

(***************************************************************************)
(* strconv and unicode, as far as ParseDuration can reach them: the        *)
(* numeric buffer holds only runes that unicode.IsNumber accepts and '.'.  *)
(***************************************************************************)
DigitRunes == <<"0", "1", "2", "3", "4", "5", "6", "7", "8", "9">>
Digits == {DigitRunes[i] : i \in 1 .. 10}
DigitVal(c) == (CHOOSE i \in 1 .. 10 : DigitRunes[i] = c) - 1

\* Runes of the Unicode category N that are no ASCII digit; "U+00B2" stands
\* for the rune SUPERSCRIPT TWO.
OtherNumberRunes == {"U+00B2"}
IsNumber(c) == c \in Digits \/ c \in OtherNumberRunes

NumError(fn, num, kind) == [func |-> fn, num |-> num, kind |-> kind]

\* strconv.ParseInt(string(num), 10, 64): decimal digits only, at least one,
\* and a value up to 2^63-1
\* the result for digits whose value is v
IntInRange(num, v) ==
    IF BLess(MaxInt64, v)
    THEN [ok |-> FALSE, v |-> MaxInt64,
          err |-> NumError("ParseInt", num, "value out of range")]
    ELSE [ok |-> TRUE, v |-> v, err |-> <<>>]

\* strconv.ParseInt taking the empty string for zero
ParseIntEmptyZero(num) ==
    IF \E i \in 1 .. Len(num) : num[i] \notin Digits
    THEN [ok |-> FALSE, v |-> <<>>,
          err |-> NumError("ParseInt", num, "invalid syntax")]
    ELSE IntInRange(num, BOfDigits([i \in 1 .. Len(num) |-> DigitVal(num[i])]))

ParseInt(num) ==
    IF num = <<>> \/ \E i \in 1 .. Len(num) : num[i] \notin Digits
    THEN [ok |-> FALSE, v |-> <<>>,
          err |-> NumError("ParseInt", num, "invalid syntax")]
    ELSE IntInRange(num, BOfDigits([i \in 1 .. Len(num) |-> DigitVal(num[i])]))

\* strconv.ParseFloat(string(num), 64): decimal digits with at most one '.',
\* at least one digit, correctly rounded
ParseFloat(num) ==
    LET dots == {i \in 1 .. Len(num) : num[i] = floatDesignator}
        digs == {i \in 1 .. Len(num) : num[i] \in Digits}
    IN  IF Cardinality(dots) > 1 \/ digs = {}
           \/ Cardinality(dots) + Cardinality(digs) # Len(num)
        THEN [ok |-> FALSE, v |-> FZero,
              err |-> NumError("ParseFloat", num, "invalid syntax")]
        ELSE LET dot == IF dots = {} THEN Len(num) + 1
                        ELSE CHOOSE i \in dots : TRUE
                 ds == SubSeq(num, 1, dot - 1) \o SubSeq(num, dot + 1, Len(num))
                 N == BOfDigits([i \in 1 .. Len(ds) |-> DigitVal(ds[i])])
             IN  [ok |-> TRUE, v |-> FRound(FALSE, N, Len(num) - dot
                                              + (IF dots = {} THEN 1 ELSE 0), 0),
                  err |-> <<>>]

(***************************************************************************)
(* ParseDuration.  ps holds the function's locals (state, duration, num,   *)
(* parsedParts) and what it has returned: ret is "none" while the loop     *)
(* runs, "ok" after `return duration, nil` and "err" after                 *)
(* `return nil, err`.                                                      *)
(***************************************************************************)
\* fmt.Errorf("%w: <text>", ErrInvalidFormat)
InvalidFormat(text) == [wraps |-> ErrInvalidFormat, text |-> text, detail |-> <<>>]

\* fmt.Errorf("<field> %w: %s", ErrParse, err.Error())
ParseFailed(field, err) == [wraps |-> ErrParse, text |-> field, detail |-> err]

NoError == [wraps |-> "", text |-> "", detail |-> <<>>]

ReturnErr(ps, e) == [ps EXCEPT !.ret = "err", !.err = e]
ReturnOk(ps) == [ps EXCEPT !.ret = "ok"]

\* the locals before the loop
ParseStart ==
    [state |-> stateParsePeriod,
     duration |-> ZeroValue,
     num |-> <<>>,
     parsedParts |-> [i \in 0 .. 9 |-> FALSE],
     ret |-> "none",
     err |-> NoError]

CasePositiveSign(ps) ==
    IF ps.state # stateParsePeriod \/ ps.parsedParts[0]
    THEN ReturnErr(ps, InvalidFormat("unexpected positive sign"))
    ELSE [ps EXCEPT !.parsedParts[0] = TRUE]

\* the negative sign case without `duration.negative = true`
CaseNegativeSignUnset(ps) ==
    IF ps.state # stateParsePeriod \/ ps.parsedParts[0]
    THEN ReturnErr(ps, InvalidFormat("unexpected negative sign"))
    ELSE [ps EXCEPT !.parsedParts[0] = TRUE]

CaseNegativeSign(ps) ==
    IF ps.state # stateParsePeriod \/ ps.parsedParts[0]
    THEN ReturnErr(ps, InvalidFormat("unexpected negative sign"))
    ELSE [ps EXCEPT !.parsedParts[0] = TRUE, !.duration.negative = TRUE]

CaseDurationDesignator(ps) ==
    IF ps.state # stateParsePeriod \/ ps.parsedParts[1]
    THEN ReturnErr(ps, InvalidFormat("unexpected duration designator"))
    ELSE [ps EXCEPT !.parsedParts[1] = TRUE]

\* the year case once strconv.ParseInt has returned r
YearParsed(ps, r) ==
    IF ~r.ok THEN ReturnErr(ps, ParseFailed("year", r.err))
    ELSE [ps EXCEPT !.parsedParts[2] = TRUE,
                    !.num = <<>>,
                    !.duration.d = I64Add(@, I64Mul(r.v, periodYear)),
                    !.duration.years = r.v]

\* the year case without its check of parsedParts
CaseYearDesignatorUnchecked(ps) ==
    IF ps.state # stateParsePeriod
    THEN ReturnErr(ps, InvalidFormat("unexpected year designator"))
    ELSE YearParsed(ps, ParseInt(ps.num))

CaseYearDesignator(ps) ==
    IF ps.state # stateParsePeriod \/ ps.parsedParts[2]
    THEN ReturnErr(ps, InvalidFormat("unexpected year designator"))
    ELSE YearParsed(ps, ParseInt(ps.num))

\* the month case once strconv.ParseInt has returned r
MonthParsed(ps, r) ==
    IF ~r.ok THEN ReturnErr(ps, ParseFailed("month", r.err))
    ELSE [ps EXCEPT !.parsedParts[3] = TRUE,
                    !.num = <<>>,
                    !.duration.d = I64Add(@, I64Mul(r.v, periodMonth)),
                    !.duration.months = r.v]

\* the minute case once strconv.ParseInt has returned r; its error reads
\* "month", as in the source
MinuteParsed(ps, r) ==
    IF ~r.ok THEN ReturnErr(ps, ParseFailed("month", r.err))
    ELSE [ps EXCEPT !.parsedParts[8] = TRUE,
                    !.num = <<>>,
                    !.duration.d = I64Add(@, I64Mul(r.v, nsPerMinute)),
                    !.duration.minutes = r.v]

CaseMinuteMonthDesignator(ps) ==
    IF ps.state = stateParsePeriod
    THEN IF ps.parsedParts[3]
         THEN ReturnErr(ps, InvalidFormat("unexpected month designator"))
         ELSE MonthParsed(ps, ParseInt(ps.num))
    ELSE IF ps.parsedParts[8]
         THEN ReturnErr(ps, InvalidFormat("unexpected minute designator"))
         ELSE MinuteParsed(ps, ParseInt(ps.num))

\* the week case once strconv.ParseInt has returned r
WeekParsed(ps, r) ==
    IF ~r.ok THEN ReturnErr(ps, ParseFailed("week", r.err))
    ELSE [ps EXCEPT !.parsedParts[4] = TRUE,
                    !.num = <<>>,
                    !.duration.d = I64Add(@, I64Mul(r.v, periodWeek)),
                    !.duration.weeks = r.v]

CaseWeekDesignator(ps) ==
    IF ps.state # stateParsePeriod \/ ps.parsedParts[4]
    THEN ReturnErr(ps, InvalidFormat("unexpected week designator"))
    ELSE WeekParsed(ps, ParseInt(ps.num))

\* the day case once strconv.ParseInt has returned r
DayParsed(ps, r) ==
    IF ~r.ok THEN ReturnErr(ps, ParseFailed("day", r.err))
    ELSE [ps EXCEPT !.parsedParts[5] = TRUE,
                    !.num = <<>>,
                    !.duration.d = I64Add(@, I64Mul(r.v, periodDay)),
                    !.duration.days = r.v]

CaseDayDesignator(ps) ==
    IF ps.state # stateParsePeriod \/ ps.parsedParts[5]
    THEN ReturnErr(ps, InvalidFormat("unexpected day designator"))
    ELSE DayParsed(ps, ParseInt(ps.num))

CaseTimeDesignator(ps) ==
    IF ps.state # stateParsePeriod \/ ps.parsedParts[6]
    THEN ReturnErr(ps, InvalidFormat("unexpected time designator"))
    ELSE [ps EXCEPT !.parsedParts[6] = TRUE, !.state = stateParseTime]

\* the hour case once strconv.ParseInt has returned r
HourParsed(ps, r) ==
    IF ~r.ok THEN ReturnErr(ps, ParseFailed("hour", r.err))
    ELSE [ps EXCEPT !.parsedParts[7] = TRUE,
                    !.num = <<>>,
                    !.duration.d = I64Add(@, I64Mul(r.v, nsPerHour)),
                    !.duration.hours = r.v]

CaseHourDesignator(ps) ==
    IF ps.state # stateParseTime \/ ps.parsedParts[7]
    THEN ReturnErr(ps, InvalidFormat("unexpected hour designator"))
    ELSE HourParsed(ps, ParseInt(ps.num))

\* the second case ending like the other cases: num cleared, no return
SecondParsedNoReturn(ps, r) ==
    IF ~r.ok THEN ReturnErr(ps, ParseFailed("second", r.err))
    ELSE [ps EXCEPT
            !.parsedParts[9] = TRUE,
            !.num = <<>>,
            !.duration.d = I64Add(@, FToInt64(FMulNat(r.v, nsPerSecond))),
            !.duration.seconds = r.v]

\* the second case once strconv.ParseFloat has returned r: the float64
\* product seconds * nsPerSecond, truncated by time.Duration(), and the
\* return
SecondParsed(ps, r) ==
    IF ~r.ok THEN ReturnErr(ps, ParseFailed("second", r.err))
    ELSE ReturnOk([ps EXCEPT
            !.parsedParts[9] = TRUE,
            !.duration.d = I64Add(@, FToInt64(FMulNat(r.v, nsPerSecond))),
            !.duration.seconds = r.v])

CaseSecondDesignator(ps) ==
    IF ps.state # stateParseTime \/ ps.parsedParts[9]
    THEN ReturnErr(ps, InvalidFormat("unexpected second designator"))
    ELSE SecondParsed(ps, ParseFloat(ps.num))

CaseDefault(ps, char) ==
    IF IsNumber(char) \/ char = floatDesignator
    THEN [ps EXCEPT !.num = Append(@, char)]
    ELSE ReturnErr(ps, InvalidFormat("unexpected value or designator"))

\* the statements after the loop without the check of num
PostScanUnchecked(ps) == ReturnOk(ps)

\* the statements after the loop
PostScan(ps) ==
    IF Len(ps.num) > 0
    THEN ReturnErr(ps, InvalidFormat("missing designator"))
    ELSE ReturnOk(ps)

\* one iteration of the loop: the switch on char
ScanChar(ps, char) ==
    CASE char = positiveSign -> CasePositiveSign(ps)
      [] char = negativeSign -> CaseNegativeSign(ps)
      [] char = durationDesignator -> CaseDurationDesignator(ps)
      [] char = yearDesignator -> CaseYearDesignator(ps)
      [] char = minuteMonthDesignator -> CaseMinuteMonthDesignator(ps)
      [] char = weekDesignator -> CaseWeekDesignator(ps)
      [] char = dayDesignator -> CaseDayDesignator(ps)
      [] char = timeDesignator -> CaseTimeDesignator(ps)
      [] char = hourDesignator -> CaseHourDesignator(ps)
      [] char = secondDesignator -> CaseSecondDesignator(ps)
      [] OTHER -> CaseDefault(ps, char)

\* the loop `for _, char := range d` over d[lo .. hi], left to right, ending
\* at the first return
RECURSIVE ScanRange(_, _, _, _)
ScanRange(ps, d, lo, hi) ==
    IF lo > hi \/ ps.ret # "none" THEN ps
    ELSE IF lo = hi THEN ScanChar(ps, d[lo])
    ELSE ScanRange(ScanRange(ps, d, lo, (lo + hi) \div 2),
                   d, (lo + hi) \div 2 + 1, hi)

\* the whole body of ParseDuration: the loop, then the statements after it
AfterLoop(ps) == IF ps.ret # "none" THEN ps ELSE PostScan(ps)

ScanAll(d) == AfterLoop(ScanRange(ParseStart, d, 1, Len(d)))

\* what ParseDuration(d) returns: (duration, nil) or (nil, err)
Returned(ps) ==
    [ok |-> ps.ret = "ok",
     duration |-> IF ps.ret = "ok" THEN ps.duration ELSE <<>>,
     err |-> ps.err]

ParseDuration(d) == Returned(ScanAll(d))

\* GetTimeDuration without its `if d.negative` branch
GetTimeDurationUnsigned(dur) == dur.d

\* GetTimeDuration
GetTimeDuration(dur) == IF dur.negative THEN I64Neg(dur.d) ELSE dur.d

(***************************************************************************)
(* FromTimeDuration.                                                       *)
(***************************************************************************)
\* one pass of `for d >= unit { count++; d -= unit }`
LoopBody(st, unit) ==
    IF I64Geq(st.d, unit)
    THEN [d |-> I64Sub(st.d, unit), count |-> I64Add(st.count, <<1>>)]
    ELSE st

\* n passes of the loop, or fewer when the guard fails before
RECURSIVE Passes(_, _, _)
Passes(st, unit, n) ==
    IF n = 0 \/ ~I64Geq(st.d, unit) THEN st
    ELSE IF n = 1 THEN LoopBody(st, unit)
    ELSE Passes(Passes(st, unit, n \div 2), unit, n - n \div 2)

\* for d >= unit { count++; d -= unit }: the loop ends within 2^63 / unit
\* passes, fewer than 2^9 for every unit of FromTimeDuration's first loop
\* and fewer than 2^5 for the loops after it
SubtractLoop(d, count, unit) ==
    LET st == Passes([d |-> d, count |-> count], unit, 2 ^ 9)
    IN  CASE ~I64Geq(st.d, unit) -> st

\* time.Duration.Seconds: sec := d / Second; nsec := d % Second;
\* float64(sec) + float64(nsec)/1e9, Go's / and % truncating toward zero
Seconds(d) ==
    LET mag == I64Mag(d)
        q == BDivPow10(mag, 9).q
        r == BSub(mag, BMul(q, nsPerSecond))
        sec == I64Of(I64IsNeg(d), q)
        nsec == I64Of(I64IsNeg(d), r)
    IN  FAdd(FOfInt64(sec), FDivPow10(FOfInt64(nsec), 9))

FromTimeDuration(d) ==
    IF d = <<>> THEN ZeroValue
    ELSE LET negative == I64IsNeg(d)
             d0 == IF negative THEN I64Neg(d) ELSE d
             y == SubtractLoop(d0, <<>>, periodYear)
             mo == SubtractLoop(y.d, <<>>, periodMonth)
             w == SubtractLoop(mo.d, <<>>, periodWeek)
             dd == SubtractLoop(w.d, <<>>, periodDay)
             h == SubtractLoop(dd.d, <<>>, nsPerHour)
             mi == SubtractLoop(h.d, <<>>, nsPerMinute)
         IN  [d |-> d0, negative |-> negative,
              years |-> y.count, months |-> mo.count, weeks |-> w.count,
              days |-> dd.count, hours |-> h.count, minutes |-> mi.count,
              seconds |-> Seconds(mi.d)]

(***************************************************************************)
(* Duration.String, with strconv.Itoa and strconv.FormatFloat.             *)
(***************************************************************************)
DigitsText(ds) == [i \in 1 .. Len(ds) |-> DigitRunes[ds[i] + 1]]

\* strconv.Itoa of an int
Itoa(x) ==
    IF x = <<>> THEN <<"0">>
    ELSE (IF I64IsNeg(x) THEN <<"-">> ELSE <<>>) \o DigitsText(BDigits(I64Mag(x)))

\* floor(|x| * 10^j), j any integer
FScaleFloor(x, j) ==
    FloorScaled(IF j >= 0 THEN BMul(x.m, BPow10(j)) ELSE x.m,
                IF j < 0 THEN -j ELSE 0, x.e).q

\* the integer nearest to |x| * 10^j, ties to even
FScaleRound(x, j) ==
    HalfEven(FloorScaled(IF j >= 0 THEN BMul(x.m, BPow10(j)) ELSE x.m,
                         IF j < 0 THEN -j ELSE 0, x.e + 1))

RECURSIVE LeadingPlace(_, _)
LeadingPlace(x, j) ==
    IF FScaleFloor(x, j) # <<>> THEN j ELSE LeadingPlace(x, j + 1)

\* p with 10^(p-1) <= |x| < 10^p, for x # 0
DecimalExponent(x) ==
    IF FScaleFloor(x, 0) # <<>> THEN Len(BDigits(FScaleFloor(x, 0)))
    ELSE 1 - LeadingPlace(x, 1)

\* |x| * 10^(p-k) read back as a float64
ReadBack(c, p, k) ==
    IF p - k >= 0 THEN FRound(FALSE, BMul(c, BPow10(p - k)), 0, 0)
    ELSE FRound(FALSE, c, k - p, 0)

\* the fewest significant decimal digits that read back as x (at most 17)
RECURSIVE ShortestDigits(_, _, _)
\* c, the k-digit decimal nearest to x, if it reads back as x or k is 17;
\* else one digit more
ShortestFrom(x, p, k, c) ==
    IF k = 17 \/ ReadBack(c, p, k) = [x EXCEPT !.neg = FALSE]
    THEN [ds |-> BDigits(c), k |-> k]
    ELSE ShortestDigits(x, p, k + 1)

ShortestDigits(x, p, k) == ShortestFrom(x, p, k, FScaleRound(x, k - p))

RECURSIVE StripZeros(_)
StripZeros(ds) ==
    IF ds # <<>> /\ ds[Len(ds)] = 0 THEN StripZeros(SubSeq(ds, 1, Len(ds) - 1))
    ELSE ds

Zeros(n) == [i \in 1 .. n |-> "0"]

\* strconv.FormatFloat(x, 'f', -1, 64)
\* the digits ds with the decimal point after the p-th of them
Layout(ds, p) ==
    IF p <= 0 THEN <<"0", ".">> \o Zeros(-p) \o ds
    ELSE IF p >= Len(ds) THEN ds \o Zeros(p - Len(ds))
    ELSE SubSeq(ds, 1, p) \o <<".">> \o SubSeq(ds, p + 1, Len(ds))

\* the text of the digits sd.ds, sd.k of them unless rounding carried into
\* one digit more
FormatDigits(sd, p0) ==
    Layout(DigitsText(StripZeros(sd.ds)),
           IF Len(sd.ds) > sd.k THEN p0 + 1 ELSE p0)

FormatFrom(x, p0) == FormatDigits(ShortestDigits(x, p0, 1), p0)

FormatFloat(x) ==
    IF x.m = <<>> THEN <<"0">>
    ELSE (IF x.neg THEN <<"-">> ELSE <<>>) \o FormatFrom(x, DecimalExponent(x))

\* The builder b and the flag hasTime pass through the statements of String
\* in the order of the source.
WriteSign(dur) ==
    (IF dur.negative THEN <<negativeSign>> ELSE <<>>) \o <<durationDesignator>>

WriteYears(b, dur) ==
    IF dur.years # <<>> THEN b \o Itoa(dur.years) \o <<yearDesignator>> ELSE b

WriteMonths(b, dur) ==
    IF dur.months # <<>> THEN b \o Itoa(dur.months) \o <<minuteMonthDesignator>>
    ELSE b

WriteWeeks(b, dur) ==
    IF dur.weeks # <<>> THEN b \o Itoa(dur.weeks) \o <<weekDesignator>> ELSE b

WriteDays(b, dur) ==
    IF dur.days # <<>> THEN b \o Itoa(dur.days) \o <<dayDesignator>> ELSE b

WriteHours(b, dur) ==
    IF dur.hours # <<>>
    THEN [b |-> b \o <<timeDesignator>> \o Itoa(dur.hours) \o <<hourDesignator>>,
          hasTime |-> TRUE]
    ELSE [b |-> b, hasTime |-> FALSE]

\* the minutes written with a T of their own, whatever hasTime says
WriteMinutesWithT(st, dur) ==
    IF dur.minutes # <<>>
    THEN [b |-> Append(st.b, timeDesignator)
                   \o Itoa(dur.minutes) \o <<minuteMonthDesignator>>,
          hasTime |-> TRUE]
    ELSE st

WriteMinutes(st, dur) ==
    IF dur.minutes # <<>>
    THEN [b |-> (IF ~st.hasTime THEN Append(st.b, timeDesignator) ELSE st.b)
                   \o Itoa(dur.minutes) \o <<minuteMonthDesignator>>,
          hasTime |-> TRUE]
    ELSE st

WriteSeconds(st, dur) ==
    IF dur.seconds.m # <<>>
    THEN [b |-> (IF ~st.hasTime THEN Append(st.b, timeDesignator) ELSE st.b)
                   \o FormatFloat(dur.seconds) \o <<secondDesignator>>,
          hasTime |-> TRUE]
    ELSE st

\* String with the literal for zero only when negative is not set
StringUnlessNegative(dur) ==
    IF dur.d = <<>> /\ ~dur.negative THEN zeroDuration
    ELSE WriteSeconds(
           WriteMinutes(
             WriteHours(
               WriteDays(
                 WriteWeeks(
                   WriteMonths(
                     WriteYears(WriteSign(dur), dur), dur), dur), dur), dur),
             dur), dur).b

String(dur) ==
    IF dur.d = <<>> THEN zeroDuration
    ELSE WriteSeconds(
           WriteMinutes(
             WriteHours(
               WriteDays(
                 WriteWeeks(
                   WriteMonths(
                     WriteYears(WriteSign(dur), dur), dur), dur), dur), dur),
             dur), dur).b

(***************************************************************************)
(* Duration.UnmarshalJSON, with json.Unmarshal into a string variable as   *)
(* far as the sources of the model reach it: JSON without a \u escape.     *)
(***************************************************************************)
JsonSpace == {" ", "\t", "\n", "\r"}

\* the bytes from the first to the last that is no JSON white space
JsonTrim(source) ==
    LET solid == {i \in 1 .. Len(source) : source[i] \notin JsonSpace}
    IN  IF solid = {} THEN <<>>
        ELSE SubSeq(source, CHOOSE i \in solid : \A j \in solid : i <= j,
                            CHOOSE i \in solid : \A j \in solid : j <= i)

JsonSyntaxError == [wraps |-> "json", text |-> "SyntaxError", detail |-> <<>>]
JsonTypeError == [wraps |-> "json", text |-> "UnmarshalTypeError", detail |-> <<>>]

\* the rune a backslash escape stands for
JsonEscape(c) ==
    CASE c \in {"\"", "\\", "/"} -> c
      [] c = "n" -> "\n"
      [] c = "t" -> "\t"
      [] c = "r" -> "\r"
      [] c = "f" -> "\f"
      [] c = "b" -> "U+0008"

\* the string literal t read from its i-th byte, out decoded so far: the
\* literal ends at the first quote that no backslash precedes, and that
\* quote must be the last byte
RECURSIVE JsonUnquote(_, _, _)
JsonUnquote(t, i, out) ==
    IF i > Len(t) THEN [ok |-> FALSE, s |-> <<>>]
    ELSE IF t[i] = "\"" THEN [ok |-> i = Len(t), s |-> out]
    ELSE IF t[i] = "\\"
    THEN IF i < Len(t) /\ t[i + 1] \in {"\"", "\\", "/", "n", "t", "r", "f", "b", "u"}
         THEN JsonUnquote(t, i + 2, Append(out, JsonEscape(t[i + 1])))
         ELSE [ok |-> FALSE, s |-> <<>>]
    ELSE IF t[i] \in JsonSpace \ {" "} THEN [ok |-> FALSE, s |-> <<>>]
    ELSE JsonUnquote(t, i + 1, Append(out, t[i]))

\* a JSON number without sign, fraction or exponent
JsonIsNumber(t) ==
    /\ t # <<>>
    /\ \A i \in 1 .. Len(t) : t[i] \in Digits
    /\ Len(t) > 1 => t[1] # "0"

\* what json.Unmarshal does once the literal has been unquoted
JsonStringResult(duration, q) ==
    IF q.ok THEN [ok |-> TRUE, duration |-> q.s, err |-> NoError]
    ELSE [ok |-> FALSE, duration |-> duration, err |-> JsonSyntaxError]

\* json.Unmarshal(source, &duration) for the trimmed text t: a string
\* literal is stored, null leaves duration as it is, any other JSON value
\* is a type error, anything else a syntax error
JsonValue(t, duration) ==
    IF t # <<>> /\ t[1] = "\"" THEN JsonStringResult(duration, JsonUnquote(t, 2, <<>>))
    ELSE IF t = <<"n", "u", "l", "l">>
    THEN [ok |-> TRUE, duration |-> duration, err |-> NoError]
    ELSE IF JsonIsNumber(t) \/ t \in {<<"t", "r", "u", "e">>,
                                     <<"f", "a", "l", "s", "e">>,
                                     <<"{", "}">>, <<"[", "]">>}
    THEN [ok |-> FALSE, duration |-> duration, err |-> JsonTypeError]
    ELSE [ok |-> FALSE, duration |-> duration, err |-> JsonSyntaxError]

JsonUnmarshal(source, duration) == JsonValue(JsonTrim(source), duration)

\* UnmarshalJSON after ParseDuration, assigning the zero Duration when the
\* parse failed
AfterParseAssigning(d, parsed) ==
    IF ~parsed.ok THEN [d |-> ZeroValue, err |-> parsed.err]
    ELSE [d |-> parsed.duration, err |-> NoError]

\* UnmarshalJSON after ParseDuration: `return err`, or `*d = *parsed` and
\* `return nil`
AfterParse(d, parsed) ==
    IF ~parsed.ok THEN [d |-> d, err |-> parsed.err]
    ELSE [d |-> parsed.duration, err |-> NoError]

\* UnmarshalJSON after json.Unmarshal
AfterUnmarshal(d, dec) ==
    IF ~dec.ok THEN [d |-> d, err |-> dec.err]
    ELSE AfterParse(d, ParseDuration(dec.duration))

\* UnmarshalJSON with receiver d: the receiver afterwards and the error
\* returned; `var duration string` starts empty
UnmarshalJSON(d, source) == AfterUnmarshal(d, JsonUnmarshal(source, <<>>))

(***************************************************************************)
(* The state machine.                                                      *)
(*   pc    where the run stands: "scan" (inside ParseDuration's loop, the  *)
(*         input read rune by rune), "convert", "format", "call" (about to *)
(*         call ParseDuration(d)), "returned", "formatted" (String called  *)
(*         on what ParseDuration returned), "unmarshal" and "unmarshalled" *)
(*   d     the argument of ParseDuration; while pc = "scan", the part of   *)
(*         it the loop has read                                            *)
(*   ps    ParseDuration's locals and what it has returned                 *)
(*   arg   the argument of FromTimeDuration                                *)
(*   dur   the Duration FromTimeDuration returned                          *)
(*   gram  the fields from which a well-formed d was written               *)
(*   str   the text String returned for the Duration ParseDuration         *)
(*         returned                                                        *)
(*   source  the argument of UnmarshalJSON, whose receiver is dur          *)
(*   err   the error UnmarshalJSON returned                                *)
(***************************************************************************)
VARIABLES pc, d, ps, arg, dur, gram, str, source, err

vars == <<pc, d, ps, arg, dur, gram, str, source, err>>

\* Bounds of the model: the longest text SpecScan reads, the largest multiple
\* of a unit SpecConvert converts, and the longest text appended after an S
MaxLen == 6
MaxMult == 2
MaxSuffix == 2

(***************************************************************************)
(* ParseDuration read rune by rune: one action for each case of the        *)
(* switch, and one for the end of the input.                               *)
(***************************************************************************)
\* the runes the default case is tried with: a digit, the point, and a rune
\* that is neither
DefaultRunes == {"1", floatDesignator, "x"}

\* every rune SpecScan feeds to the loop
Alphabet ==
    {positiveSign, negativeSign, durationDesignator, yearDesignator,
     minuteMonthDesignator, weekDesignator, dayDesignator, timeDesignator,
     hourDesignator, secondDesignator} \cup DefaultRunes

NoGram == <<>>

InitScan ==
    /\ pc = "scan"
    /\ d = <<>>
    /\ ps = ParseStart
    /\ arg = <<>>
    /\ dur = ZeroValue
    /\ gram = NoGram
    /\ str = <<>>
    /\ source = <<>>
    /\ err = NoError

Scanning == pc = "scan" /\ ps.ret = "none" /\ Len(d) < MaxLen

ScanPositiveSign ==
    /\ Scanning
    /\ d' = Append(d, positiveSign)
    /\ ps' = CasePositiveSign(ps)
    /\ UNCHANGED <<pc, arg, dur, gram, str, source, err>>

ScanNegativeSign ==
    /\ Scanning
    /\ d' = Append(d, negativeSign)
    /\ ps' = CaseNegativeSign(ps)
    /\ UNCHANGED <<pc, arg, dur, gram, str, source, err>>

ScanDurationDesignator ==
    /\ Scanning
    /\ d' = Append(d, durationDesignator)
    /\ ps' = CaseDurationDesignator(ps)
    /\ UNCHANGED <<pc, arg, dur, gram, str, source, err>>

ScanYearDesignator ==
    /\ Scanning
    /\ d' = Append(d, yearDesignator)
    /\ ps' = CaseYearDesignator(ps)
    /\ UNCHANGED <<pc, arg, dur, gram, str, source, err>>

ScanMinuteMonthDesignator ==
    /\ Scanning
    /\ d' = Append(d, minuteMonthDesignator)
    /\ ps' = CaseMinuteMonthDesignator(ps)
    /\ UNCHANGED <<pc, arg, dur, gram, str, source, err>>

ScanWeekDesignator ==
    /\ Scanning
    /\ d' = Append(d, weekDesignator)
    /\ ps' = CaseWeekDesignator(ps)
    /\ UNCHANGED <<pc, arg, dur, gram, str, source, err>>

ScanDayDesignator ==
    /\ Scanning
    /\ d' = Append(d, dayDesignator)
    /\ ps' = CaseDayDesignator(ps)
    /\ UNCHANGED <<pc, arg, dur, gram, str, source, err>>

ScanTimeDesignator ==
    /\ Scanning
    /\ d' = Append(d, timeDesignator)
    /\ ps' = CaseTimeDesignator(ps)
    /\ UNCHANGED <<pc, arg, dur, gram, str, source, err>>

ScanHourDesignator ==
    /\ Scanning
    /\ d' = Append(d, hourDesignator)
    /\ ps' = CaseHourDesignator(ps)
    /\ UNCHANGED <<pc, arg, dur, gram, str, source, err>>

ScanSecondDesignator ==
    /\ Scanning
    /\ d' = Append(d, secondDesignator)
    /\ ps' = CaseSecondDesignator(ps)
    /\ UNCHANGED <<pc, arg, dur, gram, str, source, err>>

ScanDefault ==
    /\ Scanning
    /\ \E char \in DefaultRunes :
          /\ d' = Append(d, char)
          /\ ps' = CaseDefault(ps, char)
    /\ UNCHANGED <<pc, arg, dur, gram, str, source, err>>

\* the input ends here: the statements after the loop
EndOfInput ==
    /\ pc = "scan"
    /\ ps.ret = "none"
    /\ ps' = PostScan(ps)
    /\ UNCHANGED <<pc, d, arg, dur, gram, str, source, err>>

NextScan ==
    \/ ScanPositiveSign
    \/ ScanNegativeSign
    \/ ScanDurationDesignator
    \/ ScanYearDesignator
    \/ ScanMinuteMonthDesignator
    \/ ScanWeekDesignator
    \/ ScanDayDesignator
    \/ ScanTimeDesignator
    \/ ScanHourDesignator
    \/ ScanSecondDesignator
    \/ ScanDefault
    \/ EndOfInput

SpecScan == InitScan /\ [][NextScan]_vars

(***************************************************************************)
(* A call of ParseDuration on a whole string.                              *)
(***************************************************************************)
CallParseDuration ==
    /\ pc = "call"
    /\ ps' = ScanAll(d)
    /\ pc' = "returned"
    /\ UNCHANGED <<d, arg, dur, gram, str, source, err>>

(***************************************************************************)
(* FromTimeDuration(arg), then String, then ParseDuration of the text.     *)
(***************************************************************************)
Units ==
    <<periodYear, periodMonth, periodWeek, periodDay, nsPerHour, nsPerMinute,
      nsPerSecond, BNat(nsPerMillisecond)>>

RECURSIVE SumUnits(_, _)
SumUnits(k, i) ==
    IF i = 0 THEN <<>> ELSE BAdd(BMulS(Units[i], k), SumUnits(k, i - 1))

\* magnitudes at and next to the multiples of each unit, and of all units
\* together
ConvertMagnitudes ==
    LET mults == {BMulS(Units[i], k) : i \in 1 .. Len(Units), k \in 1 .. MaxMult}
                    \cup {SumUnits(k, Len(Units)) : k \in 1 .. MaxMult}
    IN  mults \cup {BAdd(m, <<1>>) : m \in mults}
              \cup {BSub(m, <<1>>) : m \in mults}
              \cup {<<>>, <<15>>, MaxInt64}

ConvertInputs ==
    ConvertMagnitudes \cup {I64Neg(m) : m \in ConvertMagnitudes} \cup {MinInt64}

InitConvert ==
    /\ pc = "convert"
    /\ arg \in ConvertInputs
    /\ dur = ZeroValue
    /\ d = <<>>
    /\ ps = ParseStart
    /\ gram = NoGram
    /\ str = <<>>
    /\ source = <<>>
    /\ err = NoError

CallFromTimeDuration ==
    /\ pc = "convert"
    /\ dur' = FromTimeDuration(arg)
    /\ pc' = "format"
    /\ UNCHANGED <<d, ps, arg, gram, str, source, err>>

CallString ==
    /\ pc = "format"
    /\ d' = String(dur)
    /\ pc' = "call"
    /\ UNCHANGED <<ps, arg, dur, gram, str, source, err>>

NextConvert ==
    \/ CallFromTimeDuration
    \/ CallString
    \/ CallParseDuration

SpecConvert == InitConvert /\ [][NextConvert]_vars

(***************************************************************************)
(* ParseDuration called on the strings of the grammar                      *)
(*     [sign] P [nY][nM][nW][nD] [T [nH][nM][nS]].                         *)
(* gram holds the sign, the digits of each field (<<>> when the field is   *)
(* absent) and whether the T is written.                                   *)
(***************************************************************************)
\* the digit runs written for a field: zero, one digit, leading zeros
FieldTexts == {<<"0">>, <<"7">>, <<"0", "1", "2">>}

\* the digit runs written for the seconds: also the least number of seconds
\* whose nanoseconds no float64 holds exactly
SecondTexts ==
    {<<"0">>, <<"7">>, <<"4", "6", "1", "1", "6", "8", "6", "0", "1", "9">>}

Absent == <<>>

Grammar ==
    {g \in [sign : {<<>>, <<positiveSign>>, <<negativeSign>>},
            years : {Absent, <<"7">>},
            months : FieldTexts \cup {Absent},
            weeks : {Absent, <<"0">>},
            days : FieldTexts \cup {Absent},
            time : BOOLEAN,
            hours : {Absent, <<"0", "1", "2">>},
            minutes : FieldTexts \cup {Absent},
            seconds : SecondTexts \cup {Absent}] :
        (g.hours # Absent \/ g.minutes # Absent \/ g.seconds # Absent) => g.time}

WriteField(text, designator) ==
    IF text = Absent THEN <<>> ELSE text \o <<designator>>

\* the string of the grammar that gram describes
Render(g) ==
    g.sign \o <<durationDesignator>>
      \o WriteField(g.years, yearDesignator)
      \o WriteField(g.months, minuteMonthDesignator)
      \o WriteField(g.weeks, weekDesignator)
      \o WriteField(g.days, dayDesignator)
      \o (IF g.time THEN <<timeDesignator>> ELSE <<>>)
      \o WriteField(g.hours, hourDesignator)
      \o WriteField(g.minutes, minuteMonthDesignator)
      \o WriteField(g.seconds, secondDesignator)

InitGrammar ==
    /\ pc = "call"
    /\ gram \in Grammar
    /\ d = Render(gram)
    /\ ps = ParseStart
    /\ arg = <<>>
    /\ dur = ZeroValue
    /\ str = <<>>
    /\ source = <<>>
    /\ err = NoError

NextGrammar == CallParseDuration

SpecGrammar == InitGrammar /\ [][NextGrammar]_vars

(***************************************************************************)
(* String called on the Duration that ParseDuration returned: for the text *)
(* of FromTimeDuration's Duration (as in SpecConvert), and for strings     *)
(* written from fields: canonical ones (no '+', no zero field, no leading  *)
(* zero), some with a total beyond the int64 range, and strings of zero    *)
(* total.                                                                  *)
(***************************************************************************)
CallStringParsed ==
    /\ pc = "returned"
    /\ ps.ret = "ok"
    /\ str' = String(ps.duration)
    /\ pc' = "formatted"
    /\ UNCHANGED <<d, ps, arg, dur, gram, source, err>>

\* 2^48 years are a multiple of 2^64 nanoseconds; 293 years are more than
\* 2^63 nanoseconds; 2^63 years are no int64
YearTexts ==
    {<<"7">>, <<"2", "9", "3">>,
     <<"2", "8", "1", "4", "7", "4", "9", "7", "6", "7", "1", "0", "6", "5", "6">>,
     <<"9", "2", "2", "3", "3", "7", "2", "0", "3", "6", "8", "5", "4", "7", "7",
       "5", "8", "0", "8">>}

\* seconds with a fraction, down to a tenth of a nanosecond
FractionTexts ==
    {<<"7">>, <<"1", ".", "5">>,
     <<"0", ".", "0", "0", "0", "0", "0", "0", "0", "0", "0", "1">>}

CanonicalGrammar ==
    {g \in [sign : {<<>>, <<negativeSign>>},
            years : YearTexts \cup {Absent},
            months : {Absent, <<"1", "2">>},
            weeks : {Absent, <<"1">>},
            days : {Absent, <<"7">>},
            time : BOOLEAN,
            hours : {Absent, <<"1", "2">>},
            minutes : {Absent, <<"7">>},
            seconds : FractionTexts \cup {Absent}] :
        g.time = (g.hours # Absent \/ g.minutes # Absent \/ g.seconds # Absent)}

\* strings whose fields are all zero or absent
ZeroGrammar ==
    {g \in [sign : {<<>>, <<positiveSign>>, <<negativeSign>>},
            years : {Absent},
            months : {Absent},
            weeks : {Absent},
            days : {Absent, <<"0">>},
            time : BOOLEAN,
            hours : {Absent},
            minutes : {Absent},
            seconds : {Absent, <<"0">>, <<"0", ".", "0">>}] :
        g.seconds # Absent => g.time}

FormatGrammar == CanonicalGrammar \cup ZeroGrammar

InitFormat ==
    \/ InitConvert
    \/ /\ pc = "call"
       /\ gram \in FormatGrammar
       /\ d = Render(gram)
       /\ ps = ParseStart
       /\ arg = <<>>
       /\ dur = ZeroValue
       /\ str = <<>>
       /\ source = <<>>
       /\ err = NoError

NextFormat ==
    \/ CallFromTimeDuration
    \/ CallString
    \/ CallParseDuration
    \/ CallStringParsed

SpecFormat == InitFormat /\ [][NextFormat]_vars

(***************************************************************************)
(* UnmarshalJSON called on a receiver that holds a Duration already.       *)
(***************************************************************************)
\* the strings that the sources quote: accepted ones, rejected ones, the
\* empty one
QuotedTexts ==
    {<<>>, <<"P", "T", "1", "H">>, <<"P", "1", "Y">>, <<"-", "P", "1", "D">>,
     <<"P", "T", "1", ".", "5", "S">>, <<"P", "6">>, <<"P", "T", "M">>,
     <<"P", "1", "Y", "1", "Y">>, <<"x">>, <<"P", "T", "1", "S", "x">>}

UnmarshalSources ==
    {<<"\"">> \o s \o <<"\"">> : s \in QuotedTexts}
      \cup {<<" ", "\"", "P", "T", "1", "H", "\"", "\n">>,
            <<"\"", "P", "\\", "/", "T", "1", "H", "\"">>,
            <<"\"", "P", "T", "1", "H">>,
            <<"\"", "P", "T", "\"", "1", "H", "\"">>,
            <<"P", "T", "1", "H">>,
            <<"n", "u", "l", "l">>, <<"1">>, <<"t", "r", "u", "e">>,
            <<"{", "}">>, <<>>}

\* the totals of the Durations the receiver holds before the call
ReceiverTotals ==
    {<<>>, nsPerHour, I64Neg(BAdd(periodYear, nsPerSecond)), BNat(1500000000)}

InitUnmarshal ==
    /\ pc = "unmarshal"
    /\ arg \in ReceiverTotals
    /\ dur = FromTimeDuration(arg)
    /\ source \in UnmarshalSources
    /\ d = <<>>
    /\ ps = ParseStart
    /\ gram = NoGram
    /\ str = <<>>
    /\ err = NoError

CallUnmarshalJSON ==
    /\ pc = "unmarshal"
    /\ \E r \in {UnmarshalJSON(dur, source)} :
          /\ dur' = r.d
          /\ err' = r.err
    /\ pc' = "unmarshalled"
    /\ UNCHANGED <<d, ps, arg, gram, str, source>>

NextUnmarshal == CallUnmarshalJSON

SpecUnmarshal == InitUnmarshal /\ [][NextUnmarshal]_vars

Spec == SpecScan

(***************************************************************************)
(* Properties.  Texts are judged by their runes alone, never by the        *)
(* parser's own flags.                                                     *)
(***************************************************************************)
Front(s) == SubSeq(s, 1, Len(s) - 1)
Last(s) == s[Len(s)]
Occurs(c, s) == \E i \in 1 .. Len(s) : s[i] = c
Signs == {positiveSign, negativeSign}

\* a T stands in s: what follows it is read in time mode
InTime(s) == Occurs(timeDesignator, s)

\* the part of s after its first T
AfterT(s) ==
    SubSeq(s, 1 + (CHOOSE i \in 1 .. Len(s) :
                      s[i] = timeDesignator
                      /\ ~Occurs(timeDesignator, SubSeq(s, 1, i - 1))),
           Len(s))

\* the value of a run of decimal digits
TextValue(text) == BOfDigits([i \in 1 .. Len(text) |-> DigitVal(text[i])])

\* the nanoseconds of the string g describes: each number times the factor
\* of its field, summed, and negated for the sign '-'
Expected(g) ==
    I64Of(g.sign = <<negativeSign>>,
          BAdd(BMul(TextValue(g.years), periodYear),
          BAdd(BMul(TextValue(g.months), periodMonth),
          BAdd(BMul(TextValue(g.weeks), periodWeek),
          BAdd(BMul(TextValue(g.days), periodDay),
          BAdd(BMul(TextValue(g.hours), nsPerHour),
          BAdd(BMul(TextValue(g.minutes), nsPerMinute),
               BMul(TextValue(g.seconds), nsPerSecond))))))))

\* C1: every string of the grammar [sign] P [nY][nM][nW][nD] [T [nH][nM][nS]]
\* is accepted, and GetTimeDuration of the result is the sum of each number
\* times the factor of its field (an M before T months, an M after T
\* minutes), negated exactly for the sign '-'; leading zeros and zero fields
\* change nothing.
GrammarTotal ==
    pc = "returned" =>
        /\ ps.ret = "ok"
        /\ GetTimeDuration(ps.duration) = Expected(gram)

\* C2: for every n other than the minimum value (whose magnitude no int64
\* holds), the text String writes for FromTimeDuration(n) is accepted by
\* ParseDuration, and GetTimeDuration of the result is n.
RoundTrip ==
    (pc = "returned" /\ arg # MinInt64) =>
        /\ ps.ret = "ok"
        /\ GetTimeDuration(ps.duration) = arg

\* C3: for every 64-bit signed n, zero, the maximum and the minimum
\* included, GetTimeDuration(FromTimeDuration(n)) = n: the stored total,
\* read as an unsigned 64-bit number, is the magnitude of n; negative is set
\* exactly when n < 0; and GetTimeDuration negates the stored total exactly
\* when negative is set.
SignedTotalRestored ==
    pc # "convert" =>
        /\ GetTimeDuration(dur) = arg
        /\ dur.d = I64Mag(arg)
        /\ dur.negative = I64IsNeg(arg)
        /\ GetTimeDuration(dur) = IF dur.negative THEN I64Neg(dur.d) ELSE dur.d

\* C3's case: the minimum value has been converted and comes back
MinimumRestored ==
    pc = "format" /\ arg = MinInt64 /\ GetTimeDuration(dur) = MinInt64

\* no field of the Duration is below zero
NonNegativeFields(x) ==
    /\ ~I64IsNeg(x.years) /\ ~I64IsNeg(x.months) /\ ~I64IsNeg(x.weeks)
    /\ ~I64IsNeg(x.days) /\ ~I64IsNeg(x.hours) /\ ~I64IsNeg(x.minutes)
    /\ ~x.seconds.neg

\* C4: in every Duration that FromTimeDuration returns, for any 64-bit
\* signed input, and in every Duration that ParseDuration returns, years,
\* months, weeks, days, hours, minutes and seconds are all non-negative.
FieldsNonNegative ==
    /\ pc # "convert" => NonNegativeFields(dur)
    /\ ps.ret = "ok" => NonNegativeFields(ps.duration)

\* C5: every string ParseDuration accepts contains the token P.
AcceptedHasP == ps.ret = "ok" => Occurs(durationDesignator, d)

\* the place of a token in the order sign, P, Y, M, W, D, T, H, M, S; the
\* token stands in s at i, and an M after a T is the minute
Place(s, i) ==
    CASE s[i] \in Signs -> 0
      [] s[i] = durationDesignator -> 1
      [] s[i] = yearDesignator -> 2
      [] s[i] = minuteMonthDesignator ->
            IF InTime(SubSeq(s, 1, i - 1)) THEN 8 ELSE 3
      [] s[i] = weekDesignator -> 4
      [] s[i] = dayDesignator -> 5
      [] s[i] = timeDesignator -> 6
      [] s[i] = hourDesignator -> 7
      [] s[i] = secondDesignator -> 9

Tokens == Alphabet \ DefaultRunes

\* C6: in every string ParseDuration accepts, the tokens present stand in
\* the order P, year, month, week, day, T, hour, minute, second (the place
\* of the sign is left to C7).
AcceptedInOrder ==
    ps.ret = "ok" =>
        \A i, j \in 1 .. Len(d) :
            (i < j /\ d[i] \in Tokens \ Signs /\ d[j] \in Tokens \ Signs)
                => Place(d, i) < Place(d, j)

\* C7: in every string ParseDuration accepts, a sign stands nowhere but at
\* the very first character.
AcceptedSignFirst ==
    ps.ret = "ok" => \A i \in 2 .. Len(d) : d[i] \notin Signs

\* the token c, read after the text s, occurs a second time
Repeated(c, s) ==
    CASE c \in Signs -> \E x \in Signs : Occurs(x, s)
      [] c = minuteMonthDesignator ->
            IF InTime(s) THEN Occurs(c, AfterT(s)) ELSE Occurs(c, s)
      [] OTHER -> Occurs(c, s)

\* the token c, read after the text s, stands in the wrong mode
WrongMode(c, s) ==
    IF InTime(s)
    THEN c \in Signs \cup {durationDesignator, yearDesignator, weekDesignator,
                          dayDesignator, timeDesignator}
    ELSE c \in {hourDesignator, secondDesignator}

Unexpected(c, s) ==
    CASE c = positiveSign -> "unexpected positive sign"
      [] c = negativeSign -> "unexpected negative sign"
      [] c = durationDesignator -> "unexpected duration designator"
      [] c = yearDesignator -> "unexpected year designator"
      [] c = minuteMonthDesignator ->
            IF InTime(s) THEN "unexpected minute designator"
            ELSE "unexpected month designator"
      [] c = weekDesignator -> "unexpected week designator"
      [] c = dayDesignator -> "unexpected day designator"
      [] c = timeDesignator -> "unexpected time designator"
      [] c = hourDesignator -> "unexpected hour designator"
      [] c = secondDesignator -> "unexpected second designator"

\* C8: when the loop reads a token that occurred before (a sign, P, Y, W, D,
\* T, H, a second M before T, a second M after T) or that stands in the
\* wrong mode (a sign, P, Y, W, D or T after T; H or S before T),
\* ParseDuration returns the invalid-format error "unexpected <token>" and
\* no Duration.
UnexpectedTokenFails ==
    (pc = "scan" /\ d # <<>> /\ Last(d) \in Tokens
        /\ (Repeated(Last(d), Front(d)) \/ WrongMode(Last(d), Front(d))))
    =>  /\ ps.ret = "err"
        /\ ps.err = InvalidFormat(Unexpected(Last(d), Front(d)))
        /\ ~Returned(ps).ok
        /\ Returned(ps).duration = <<>>

\* C8's case: a second M before any T has been read
SecondMonthRead ==
    /\ pc = "scan" /\ d # <<>> /\ ~InTime(d)
    /\ Last(d) = minuteMonthDesignator
    /\ Occurs(minuteMonthDesignator, Front(d))
    /\ ps.err = [wraps |-> "invalid format",
                 text |-> "unexpected month designator", detail |-> <<>>]

\* C9: when the input ends in a number with no designator after it, the
\* loop having returned nothing, the numeric buffer is not empty and
\* ParseDuration returns "invalid format: missing designator" and no
\* Duration.
MissingDesignatorFails ==
    (pc = "scan" /\ ps.ret # "none" /\ d # <<>>
        /\ (IsNumber(Last(d)) \/ Last(d) = floatDesignator))
    =>  /\ Len(ps.num) > 0
        /\ ps.ret = "err"
        /\ ps.err = InvalidFormat("missing designator")
        /\ ~Returned(ps).ok
        /\ Returned(ps).duration = <<>>

\* C9's case: the input "P1Y1" has ended
TrailingNumberRead ==
    /\ pc = "scan" /\ d = <<"P", "1", "Y", "1">>
    /\ ps.ret = "err" /\ ps.err.text = "missing designator"

\* the texts of up to n runes appended after an S
SuffixRunes == {"1", secondDesignator, timeDesignator, negativeSign, "x"}
RECURSIVE Suffixes(_)
Suffixes(n) ==
    IF n = 0 THEN {<<>>}
    ELSE Suffixes(n - 1)
           \cup {Append(x, c) : x \in Suffixes(n - 1), c \in SuffixRunes}

AllSuffixes == Suffixes(MaxSuffix)

\* C10: S ends the parsing: for an accepted text p that ends in S and any
\* text x, ParseDuration(p \o x) succeeds with the Duration of
\* ParseDuration(p), which is the Duration returned at the S.
NothingReadAfterS ==
    (pc = "scan" /\ ps.ret = "ok" /\ d # <<>> /\ Last(d) = secondDesignator)
    =>  LET r == ParseDuration(d)
        IN  /\ r = [ok |-> TRUE, duration |-> ps.duration, err |-> NoError]
            /\ \A x \in AllSuffixes : ParseDuration(d \o x) = r

\* C10's case: "PT1S" has been accepted at its S
SecondsAccepted ==
    /\ pc = "scan" /\ d = <<"P", "T", "1", "S">>
    /\ ps.ret = "ok" /\ ps.duration.d = nsPerSecond

\* the designators whose number ParseDuration reads with strconv.ParseInt
IntegerUnits ==
    {yearDesignator, minuteMonthDesignator, weekDesignator, dayDesignator,
     hourDesignator}

\* the numeric buffer after a text s that the loop has read without
\* returning: the number runes and points of s after its last Y, M, W, D or
\* H (a sign, P and T leave the buffer as it is)
Buffer(s) ==
    LET marks == {i \in 1 .. Len(s) : s[i] \in IntegerUnits}
        from == IF marks = {} THEN 1
                ELSE 1 + (CHOOSE i \in marks : \A j \in marks : j <= i)
        Numeric(c) == IsNumber(c) \/ c = floatDesignator
    IN  SelectSeq(SubSeq(s, from, Len(s)), Numeric)

\* num is digit+ "." digit+
Fraction(num) ==
    \E i \in 2 .. Len(num) - 1 :
        /\ num[i] = floatDesignator
        /\ \A j \in (1 .. Len(num)) \ {i} : num[j] \in Digits

\* the float64 nearest to the decimal number num
FractionValue(num) ==
    LET dot == CHOOSE i \in 1 .. Len(num) : num[i] = floatDesignator
    IN  FRound(FALSE,
               TextValue(SubSeq(num, 1, dot - 1) \o SubSeq(num, dot + 1, Len(num))),
               Len(num) - dot, 0)

\* the call has returned a parse-failed error for malformed text, and no
\* Duration
SyntaxFailure ==
    /\ ps.ret = "err"
    /\ ps.err.wraps = ErrParse
    /\ ps.err.detail.kind = "invalid syntax"
    /\ ~Returned(ps).ok
    /\ Returned(ps).duration = <<>>

\* C11: when the loop reads Y, M, W, D or H (M before or after T) where the
\* token is allowed, and the numeric buffer is empty or holds a '.',
\* ParseDuration returns a parse-failed error and no Duration (the field is
\* never taken for zero); S with an empty buffer fails the same way; and S
\* after digits, a point and digits is accepted with that fraction as the
\* seconds.
IntegerRequired ==
    (pc = "scan" /\ d # <<>>
        /\ Last(d) \in IntegerUnits \cup {secondDesignator}
        /\ ~Repeated(Last(d), Front(d)) /\ ~WrongMode(Last(d), Front(d)))
    =>  LET num == Buffer(Front(d))
        IN  /\ (Last(d) \in IntegerUnits
                    /\ (num = <<>> \/ Occurs(floatDesignator, num)))
                => SyntaxFailure
            /\ (Last(d) = secondDesignator /\ num = <<>>) => SyntaxFailure
            /\ (Last(d) = secondDesignator /\ Fraction(num))
                => /\ ps.ret = "ok"
                   /\ ps.duration.seconds = FractionValue(num)

\* C11's case: "PY" has been read, a year with an empty buffer
EmptyYearRead ==
    /\ pc = "scan" /\ d = <<"P", "Y">>
    /\ ps.ret = "err"
    /\ ps.err = [wraps |-> "parse failed", text |-> "year",
                 detail |-> [func |-> "ParseInt", num |-> <<>>,
                             kind |-> "invalid syntax"]]

\* C12: String returns "PT0S" whenever the stored total is zero, whether or
\* not negative is set: for FromTimeDuration(0), and for every parsed
\* string of zero total, "-P0D" among them.
ZeroTotalText ==
    /\ (gram = NoGram /\ pc \notin {"convert", "format"} /\ dur.d = <<>>)
        => d = <<"P", "T", "0", "S">>
    /\ (pc = "formatted" /\ ps.duration.d = <<>>)
        => str = <<"P", "T", "0", "S">>
    /\ (pc = "formatted" /\ d = <<"-", "P", "0", "D">>)
        => ps.duration.negative /\ str = <<"P", "T", "0", "S">>

\* C12's case: "-P0D" has been parsed, negative is set, and String has
\* written the literal
NegativeZeroFormatted ==
    /\ pc = "formatted" /\ d = <<"-", "P", "0", "D">>
    /\ ps.duration.negative /\ ps.duration.d = <<>>
    /\ str = <<"P", "T", "0", "S">>

\* digits without a leading zero
PlainNumber(t) ==
    t # <<>> /\ t[1] # "0" /\ \A i \in 1 .. Len(t) : t[i] \in Digits

\* a seconds text as String writes one: digits without a leading zero, or
\* such digits (or a single 0), a point and digits that do not end in 0
CanonicalSeconds(t) ==
    \/ PlainNumber(t)
    \/ \E i \in 2 .. Len(t) - 1 :
          /\ t[i] = floatDesignator
          /\ SubSeq(t, 1, i - 1) = <<"0">> \/ PlainNumber(SubSeq(t, 1, i - 1))
          /\ \A j \in i + 1 .. Len(t) : t[j] \in Digits
          /\ t[Len(t)] # "0"

\* g describes a string in canonical form: no '+', at least one field, no
\* field zero or with a leading zero, T exactly when a time field follows
Canonical(g) ==
    /\ g.sign # <<positiveSign>>
    /\ \A t \in {g.years, g.months, g.weeks, g.days, g.hours, g.minutes} :
          t = Absent \/ PlainNumber(t)
    /\ g.seconds = Absent \/ CanonicalSeconds(g.seconds)
    /\ \E t \in {g.years, g.months, g.weeks, g.days, g.hours, g.minutes,
                  g.seconds} : t # Absent
    /\ g.time = (g.hours # Absent \/ g.minutes # Absent \/ g.seconds # Absent)

\* the whole nanoseconds of a seconds text
SecondsNanos(t) ==
    LET dot == IF Occurs(floatDesignator, t)
               THEN CHOOSE i \in 1 .. Len(t) : t[i] = floatDesignator
               ELSE Len(t) + 1
    IN  BDivPow10(BMul(TextValue(SubSeq(t, 1, dot - 1)
                                   \o SubSeq(t, dot + 1, Len(t))),
                       nsPerSecond),
                  IF dot > Len(t) THEN 0 ELSE Len(t) - dot).q

\* the total of the string g describes exceeds the largest int64
Overflows(g) ==
    BLess(MaxInt64,
          BAdd(BMul(TextValue(g.years), periodYear),
          BAdd(BMul(TextValue(g.months), periodMonth),
          BAdd(BMul(TextValue(g.weeks), periodWeek),
          BAdd(BMul(TextValue(g.days), periodDay),
          BAdd(BMul(TextValue(g.hours), nsPerHour),
          BAdd(BMul(TextValue(g.minutes), nsPerMinute),
               SecondsNanos(g.seconds))))))))

\* C13: every string in canonical form whose total is within the int64
\* range (totals beyond it are left to C14) is accepted by ParseDuration,
\* and String of the result is the string itself.
CanonicalFixedPoint ==
    (gram # NoGram /\ Canonical(gram) /\ ~Overflows(gram))
    =>  /\ pc = "returned" => ps.ret = "ok"
        /\ pc = "formatted" => str = d

\* C14: every string in canonical form whose total exceeds the int64 range
\* is accepted by ParseDuration, and String of the result is the text of
\* the parsed fields, which is the string itself.
OverflowKeepsText ==
    (gram # NoGram /\ Canonical(gram) /\ Overflows(gram))
    =>  /\ pc = "returned" => ps.ret = "ok"
        /\ pc = "formatted" => str = d

\* C15: for every accepted string s that holds no sign, "-" before s is
\* accepted with the negated GetTimeDuration, and "+" before s is accepted
\* with the same GetTimeDuration.
SignPreserved ==
    (pc = "scan" /\ ps.ret = "ok" /\ \A i \in 1 .. Len(d) : d[i] \notin Signs)
    =>  LET minus == ParseDuration(<<negativeSign>> \o d)
            plus == ParseDuration(<<positiveSign>> \o d)
        IN  /\ minus.ok
            /\ GetTimeDuration(minus.duration)
                  = I64Neg(GetTimeDuration(ps.duration))
            /\ plus.ok
            /\ GetTimeDuration(plus.duration) = GetTimeDuration(ps.duration)

\* C15's case: "PT1H" has been accepted, and "-PT1H" is minus one hour
HourNegated ==
    /\ pc = "scan" /\ d = <<"P", "T", "1", "H">> /\ ps.ret = "ok"
    /\ GetTimeDuration(ps.duration) = nsPerHour
    /\ GetTimeDuration(ParseDuration(<<"-", "P", "T", "1", "H">>).duration)
          = I64Neg(nsPerHour)

\* the sources that are no JSON string and not null: an unterminated
\* literal, a quote inside a literal, bare text, a number, true, an object
\* and the empty input
Undecodable ==
    {<<"\"", "P", "T", "1", "H">>, <<"\"", "P", "T", "\"", "1", "H", "\"">>,
     <<"P", "T", "1", "H">>, <<"1">>, <<"t", "r", "u", "e">>, <<"{", "}">>,
     <<>>}

\* the string a decodable source holds: what stands between its quotes,
\* with \/ read as /; white space around the literal is skipped; null
\* leaves the empty string
Decoded(src) ==
    CASE src = <<"n", "u", "l", "l">> -> <<>>
      [] src = <<" ", "\"", "P", "T", "1", "H", "\"", "\n">> -> <<"P", "T", "1", "H">>
      [] src = <<"\"", "P", "\\", "/", "T", "1", "H", "\"">> -> <<"P", "/", "T", "1", "H">>
      [] OTHER -> SubSeq(src, 2, Len(src) - 1)

\* C16: when UnmarshalJSON returns an error, the receiver holds what it held
\* before the call: the error is json's when the source does not decode to
\* a string, and ParseDuration's when the decoded string is rejected; when
\* it returns nil, the receiver is the Duration ParseDuration returns for
\* the decoded string.
UnmarshalFrame ==
    pc = "unmarshalled" =>
        /\ err # NoError => dur = FromTimeDuration(arg)
        /\ source \in Undecodable
            => err.wraps = "json" /\ dur = FromTimeDuration(arg)
        /\ source \notin Undecodable
            => IF ParseDuration(Decoded(source)).ok
               THEN /\ err = NoError
                    /\ dur = ParseDuration(Decoded(source)).duration
               ELSE /\ err = ParseDuration(Decoded(source)).err
                    /\ err # NoError
                    /\ dur = FromTimeDuration(arg)

\* C16's case: the receiver held an hour, the source "P6" decoded, and
\* ParseDuration rejected it
RejectedKeepsReceiver ==
    /\ pc = "unmarshalled" /\ source = <<"\"", "P", "6", "\"">>
    /\ arg = nsPerHour /\ dur.hours = <<1>> /\ dur.d = nsPerHour
    /\ err = [wraps |-> "invalid format", text |-> "missing designator",
              detail |-> <<>>]

\* the fields of the Duration x composed with the fixed factors in wrapping
\* 64-bit arithmetic, the seconds converted as ParseDuration converts them,
\* by the float64 product with nsPerSecond cut to an integer
Composed(x) ==
    I64Add(I64Mul(x.years, periodYear),
    I64Add(I64Mul(x.months, periodMonth),
    I64Add(I64Mul(x.weeks, periodWeek),
    I64Add(I64Mul(x.days, periodDay),
    I64Add(I64Mul(x.hours, nsPerHour),
    I64Add(I64Mul(x.minutes, nsPerMinute),
           FToInt64(FMulNat(x.seconds, nsPerSecond))))))))

\* C17: in every Duration that FromTimeDuration returns (for an input whose
\* magnitude an int64 holds) and in every Duration that ParseDuration
\* returns, the stored total is the fields composed with the fixed factors
\* in wrapping 64-bit arithmetic; for FromTimeDuration that is the magnitude
\* of the input.
FieldsComposeTotal ==
    /\ (pc # "convert" /\ arg # MinInt64)
        => Composed(dur) = dur.d /\ Composed(dur) = I64Mag(arg)
    /\ ps.ret = "ok" => Composed(ps.duration) = ps.duration.d

\* q is the quotient of m by unit: q * unit <= m < (q + 1) * unit
Quotient(m, q, unit) ==
    /\ ~BLess(m, BMul(q, unit))
    /\ BLess(BSub(m, BMul(q, unit)), unit)

\* m mod unit, for the quotient q
Remainder(m, q, unit) == BSub(m, BMul(q, unit))

\* C18: for every magnitude m that an int64 holds, the fields of
\* FromTimeDuration are the quotients of division taken largest unit first
\* (years of m, months of the remainder, then weeks, days, hours, minutes),
\* the seconds are the last remainder (equal to it to the nanosecond), and
\* so months <= 11, weeks <= 4, days <= 6, hours <= 23, minutes <= 59 and
\* seconds < 60.
GreedyIsDivision ==
    (pc # "convert" /\ arg # MinInt64) =>
        LET m == I64Mag(arg)
            r1 == Remainder(m, dur.years, periodYear)
            r2 == Remainder(r1, dur.months, periodMonth)
            r3 == Remainder(r2, dur.weeks, periodWeek)
            r4 == Remainder(r3, dur.days, periodDay)
            r5 == Remainder(r4, dur.hours, nsPerHour)
            r6 == Remainder(r5, dur.minutes, nsPerMinute)
        IN  /\ Quotient(m, dur.years, periodYear)
            /\ Quotient(r1, dur.months, periodMonth)
            /\ Quotient(r2, dur.weeks, periodWeek)
            /\ Quotient(r3, dur.days, periodDay)
            /\ Quotient(r4, dur.hours, nsPerHour)
            /\ Quotient(r5, dur.minutes, nsPerMinute)
            /\ ~dur.seconds.neg
            /\ FScaleRound(dur.seconds, 9) = r6
            /\ BLess(dur.months, <<12>>) /\ BLess(dur.weeks, <<5>>)
            /\ BLess(dur.days, <<7>>) /\ BLess(dur.hours, <<24>>)
            /\ BLess(dur.minutes, <<60>>)
            /\ BLess(FScaleFloor(dur.seconds, 0), <<60>>)

\* C18's case: a nanosecond less than a year has been converted, and every
\* field but the years stands at its largest
LargestFieldsReached ==
    /\ pc = "format" /\ arg = BSub(periodYear, <<1>>)
    /\ dur.years = <<>> /\ dur.months = <<11>> /\ dur.weeks = <<4>>
    /\ dur.days = <<2>> /\ dur.hours = <<9>> /\ dur.minutes = <<59>>
    /\ FScaleRound(dur.seconds, 9) = BSub(nsPerMinute, <<1>>)

\* the field of the unit designator c read after the text s
FieldName(c, s) ==
    CASE c = yearDesignator -> "year"
      [] c = minuteMonthDesignator -> IF InTime(s) THEN "minute" ELSE "month"
      [] c = weekDesignator -> "week"
      [] c = dayDesignator -> "day"
      [] c = hourDesignator -> "hour"
      [] c = secondDesignator -> "second"

\* C19: when ParseDuration returns a parse-failed error, the rune just read
\* is a unit designator and the error names the field of that designator:
\* year, month, week, day, hour, minute (M after T) or second.
ParseErrorNamesField ==
    (pc = "scan" /\ ps.ret = "err" /\ ps.err.wraps = ErrParse)
    =>  /\ d # <<>>
        /\ Last(d) \in IntegerUnits \cup {secondDesignator}
        /\ ps.err.text = FieldName(Last(d), Front(d))

\* <n> and its designator, when the field is not zero
Emitted(nonzero, n, designator) ==
    IF nonzero THEN n \o <<designator>> ELSE <<>>

\* the text of the Duration x in the fixed order: '-' when negative, P,
\* the non-zero fields Y M W D, a T when a time field is not zero, the
\* non-zero fields H M S
Laid(x) ==
    (IF x.negative THEN <<"-">> ELSE <<>>) \o <<"P">>
      \o Emitted(x.years # <<>>, Itoa(x.years), "Y")
      \o Emitted(x.months # <<>>, Itoa(x.months), "M")
      \o Emitted(x.weeks # <<>>, Itoa(x.weeks), "W")
      \o Emitted(x.days # <<>>, Itoa(x.days), "D")
      \o (IF x.hours # <<>> \/ x.minutes # <<>> \/ x.seconds # FZero
          THEN <<"T">> ELSE <<>>)
      \o Emitted(x.hours # <<>>, Itoa(x.hours), "H")
      \o Emitted(x.minutes # <<>>, Itoa(x.minutes), "M")
      \o Emitted(x.seconds # FZero, FormatFloat(x.seconds), "S")

\* C20: for a Duration whose stored total is not zero, from FromTimeDuration
\* or from ParseDuration, String writes '-' exactly when negative is set,
\* then P, then <n>Y, <n>M, <n>W, <n>D, <n>H, <n>M, <n>S in that order, each
\* exactly when its field is not zero, with one T immediately before the
\* first non-zero time field, exactly when there is one.
FixedLayout ==
    /\ (gram = NoGram /\ pc \notin {"convert", "format"} /\ dur.d # <<>>)
        => d = Laid(dur)
    /\ (pc = "formatted" /\ ps.duration.d # <<>>) => str = Laid(ps.duration)

\* C20's case: minutes and seconds without hours, the T written before the
\* minutes and not again before the seconds
MinutesOpenTime ==
    /\ pc = "formatted"
    /\ ps.duration.hours = <<>> /\ ps.duration.minutes = <<7>>
    /\ ps.duration.days = <<7>> /\ ps.duration.negative
    /\ str = <<"-", "P", "7", "D", "T", "7", "M", "1", ".", "5", "S">>

\* the run of number runes and points that ends the text s
Run(s) ==
    LET Numeric(c) == IsNumber(c) \/ c = floatDesignator
        starts == {i \in 1 .. Len(s) + 1 : \A j \in i .. Len(s) : Numeric(s[j])}
    IN  SubSeq(s, CHOOSE i \in starts : \A j \in starts : i <= j, Len(s))

\* the field of the Duration x that the unit designator c, read after the
\* text s, has set
AppliedField(c, s, x) ==
    CASE c = yearDesignator -> x.years
      [] c = minuteMonthDesignator -> IF InTime(s) THEN x.minutes ELSE x.months
      [] c = weekDesignator -> x.weeks
      [] c = dayDesignator -> x.days
      [] c = hourDesignator -> x.hours

\* C21: in every accepted string, no number rune or point stands in the
\* buffer when a sign, P or T is read, and the number an integer unit
\* designator sets its field to is the run of digits that stands
\* immediately before that designator.
NumberIsAdjacentRun ==
    (pc = "scan" /\ ps.ret = "ok")
    =>  /\ \A i \in 1 .. Len(d) :
              d[i] \in Signs \cup {durationDesignator, timeDesignator}
                  => Buffer(SubSeq(d, 1, i - 1)) = <<>>
        /\ (d # <<>> /\ Last(d) \in IntegerUnits)
              => AppliedField(Last(d), Front(d), ps.duration)
                    = TextValue(Run(Front(d)))
====
